---- MODULE Spec2Model ----
(***************************************************************************)
(* A model of the APNS delivery core of django-push-notifications          *)
(* (push_notifications/apns.py) and of the admin console actions           *)
(* (push_notifications/admin.py).                                          *)
(*                                                                         *)
(* Registration ids are modelled by the integers 1..NumRids.  Python       *)
(* values are modelled by records [kind, s, n, m] so that truthiness and   *)
(* "== True" can be computed as Python computes them.                      *)
(***************************************************************************)
EXTENDS Integers, Sequences, FiniteSets, TLC

\* ------------------------------------------------------------------ bounds
NumRids == 2
Rids == 1..NumRids

\* ------------------------------------------------------------ Python values
NoMap == [t \in {} |-> ""]
PyVal(k, str, num, map) == [kind |-> k, s |-> str, n |-> num, m |-> map]
PyNone == PyVal("NoneType", "", 0, NoMap)
PyTrue == PyVal("bool", "True", 1, NoMap)
PyFalse == PyVal("bool", "False", 0, NoMap)
PyInt(i) == PyVal("int", "", i, NoMap)
PyStr(str) == PyVal("str", str, 0, NoMap)
PyList(len) == PyVal("list", "", len, NoMap)
PyDict(map) == PyVal("dict", "", 0, map)
PyFunc(name) == PyVal("function", name, 0, NoMap)

\* bool(v): None, False, 0, "", [] and {} are false, everything else is true
Truthy(v) ==
    CASE v.kind = "NoneType" -> FALSE
      [] v.kind = "bool" -> v.n = 1
      [] v.kind = "int" -> v.n # 0
      [] v.kind = "str" -> v.s # ""
      [] v.kind = "list" -> v.n # 0
      [] v.kind = "dict" -> DOMAIN v.m # {}
      [] OTHER -> TRUE

\* v == True: bool is a subclass of int, so 1 == True as well
PyEqTrue(v) == v.kind \in {"bool", "int"} /\ v.n = 1

\* callable(v)
Callable(v) == v.kind = "function"

\* str(v) for the values a priority can take
PyStrOf(v) ==
    CASE v.kind = "str" -> v.s
      [] v.kind = "int" /\ v.n = 10 -> "10"
      [] v.kind = "int" /\ v.n = 5 -> "5"
      [] v.kind = "int" /\ v.n = 7 -> "7"
      [] v.kind = "int" /\ v.n = 0 -> "0"
      [] OTHER -> "?"

\* The caller's badge function: a distinct badge for each recipient.
BadgeFn == PyFunc("badge_for")
CallBadge(badge, token) == PyInt(100 + token)

\* ------------------------------------------------------------ message options
\* The keyword arguments of a send that the code reads; the remaining ones
\* (sound, category, ...) are copied into the payload untouched.
MkKw(prio, expi, bdg, lkey, largs, akey) ==
    [priority |-> prio, expiration |-> expi, badge |-> bdg,
     loc_key |-> lkey, loc_args |-> largs, action_loc_key |-> akey]

\* ------------------------------------------------------- the payload builder
\* HasLocalization with the test of loc_args left out
HasLocalizationNoArgs(kw) ==
    Truthy(kw.action_loc_key) \/ Truthy(kw.loc_key)

\* apns.py:52, the test that selects the localized alert
HasLocalization(kw) ==
    Truthy(kw.action_loc_key) \/ Truthy(kw.loc_key) \/ Truthy(kw.loc_args)

\* apns.py:53-57, the alert of the payload
ApnsAlert(alert, kw) ==
    IF HasLocalization(kw)
    THEN [shape |-> "PayloadAlert",
          body |-> IF Truthy(alert) THEN alert ELSE PyDict(NoMap),
          body_localized_key |-> kw.loc_key,
          body_localized_args |-> kw.loc_args,
          action_localized_key |-> kw.action_loc_key]
    ELSE [shape |-> "plain", body |-> alert,
          body_localized_key |-> PyNone,
          body_localized_args |-> PyNone,
          action_localized_key |-> PyNone]

\* apns.py:56-60, the badge of the payload: the callable test sits in the
\* else branch of the localization test
ApnsBadge(token, kw) ==
    IF HasLocalization(kw)
    THEN kw.badge
    ELSE IF Callable(kw.badge) THEN CallBadge(kw.badge, token) ELSE kw.badge

\* apns.py:48-64
ApnsPrepare(token, alert, kw) ==
    [alert |-> ApnsAlert(alert, kw), badge |-> ApnsBadge(token, kw)]

\* ------------------------------------------------------------- exceptions
\* Subclasses of apns2.errors.APNsException that the certificate client raises
Apns2Exceptions == {"apns2.ConnectionFailed", "apns2.Unregistered", "apns2.BadDeviceToken"}
\* Subclasses of gobiko.apns.exceptions.APNsException that the token client raises
GobikoExceptions == {"gobiko.Unregistered", "gobiko.BadDeviceToken"}

\* The outcome of a call: the exception that left it ("" when it returned),
\* the exception's status or message, the value returned, the steps of the
\* call in the order they were made (connect, the gateway sends, the
\* registry's get, save and update, the client's construction and sends, and
\* the raise statement of apns.py:185), and the notifications handed to the
\* gateway.
Outcome(e, st, r, tr, snt) ==
    [exc |-> e, status |-> st, ret |-> r, trace |-> tr, sent |-> snt]

\* What the world outside does during one call: whether the connection is
\* made, what the gateway answers to a single and to a batch send, what the
\* token client answers, and the clock.
MkEnv(conn, snd, res, cexc, cret, clock) ==
    [connect |-> conn, send |-> snd, results |-> res,
     client_exc |-> cexc, client_ret |-> cret, now |-> clock]

\* -------------------------------------------------------- certificate path
DefaultExpiration == 2592000
\* the values of apns2.client.NotificationPriority
PriorityEnum == {"10", "5"}

\* apns.py:139-141
Expiration(kw, env) ==
    IF Truthy(kw.expiration) THEN kw.expiration.n ELSE env.now + DefaultExpiration

\* apns.py:143-148: "" when the priority is accepted, else the exception.
\* A value that is not in the enum raises ValueError, and the handler formats
\* the value with %d, which raises TypeError for a value that is no number.
PriorityError(kw) ==
    IF ~Truthy(kw.priority) THEN ""
    ELSE IF PyStrOf(kw.priority) \in PriorityEnum THEN ""
    ELSE IF kw.priority.kind \in {"int", "bool"} THEN "APNSUnsupportedPriority"
    ELSE "TypeError"

\* the priority handed to the gateway
PriorityArg(kw) == IF Truthy(kw.priority) THEN PyStrOf(kw.priority) ELSE "unset"

\* apns.py:151-152 and 156, one notification of a send
Notification(token, alert, kw, env) ==
    [token |-> token, payload |-> ApnsPrepare(token, alert, kw),
     expiration |-> Expiration(kw, env), priority |-> PriorityArg(kw)]

\* ApnsCreateSocket connecting a second time when the connection fails
ApnsCreateSocketRetry(env) ==
    IF env.connect = "ok"
    THEN [trace |-> <<"connect">>, exc |-> ""]
    ELSE [trace |-> <<"connect", "connect">>, exc |-> env.connect]

\* apns.py:38-45, _apns_create_socket: the client is built and connected
ApnsCreateSocket(env) == [trace |-> <<"connect">>, exc |-> IF env.connect = "ok" THEN "" ELSE env.connect]

\* apns.py:133-158, _apns_send. registration_id is one id, or with batch a
\* list of ids.
ApnsSend(registration_id, alert, batch, kw, env) ==
    LET sock == ApnsCreateSocket(env)
    IN  IF sock.exc # ""
        THEN Outcome(sock.exc, "", PyNone, sock.trace, <<>>)
        ELSE IF PriorityError(kw) # ""
        THEN Outcome(PriorityError(kw), "Unsupported priority", PyNone, sock.trace, <<>>)
        ELSE IF batch
        THEN LET data == [i \in 1..Len(registration_id) |->
                            Notification(registration_id[i], alert, kw, env)]
                 tr == Append(sock.trace, "send_notification_batch")
             IN  IF env.send # "ok"
                 THEN Outcome(env.send, "", PyNone, tr, data)
                 ELSE Outcome("", "", PyDict(env.results), tr, data)
        ELSE LET data == <<Notification(registration_id, alert, kw, env)>>
                 tr == Append(sock.trace, "send_notification")
             IN  IF env.send # "ok"
                 THEN Outcome(env.send, "", PyNone, tr, data)
                 ELSE Outcome("", "", PyNone, tr, data)

\* -------------------------------------------------------------- token path
\* CheckAuthKeySettings with the test of APNS_KEY_FILEPATH left out
CheckAuthKeySettingsNoFile(st) ==
    IF ~Truthy(st.TEAM_ID) \/ ~Truthy(st.BUNDLE_ID) \/ ~Truthy(st.APNS_KEY_ID)
    THEN "ImproperlyConfigured"
    ELSE ""

\* apns.py:67-87, _check_auth_key_settings: "" when the four settings are
\* set, else ImproperlyConfigured
CheckAuthKeySettings(st) ==
    IF ~Truthy(st.TEAM_ID) \/ ~Truthy(st.BUNDLE_ID)
       \/ ~Truthy(st.APNS_KEY_ID) \/ ~Truthy(st.APNS_KEY_FILEPATH)
    THEN "ImproperlyConfigured"
    ELSE ""

\* apns.py:107-110, the result of the single send
NormalizeSingle(ret) == IF PyEqTrue(ret) THEN PyStr("True") ELSE ret

\* apns.py:130, the result of the bulk send
NormalizeBulk(ret) == ret

\* apns.py:90-110, _auth_key_apns_send
AuthKeyApnsSend(registration_id, alert, kw, env) ==
    LET tr == <<"APNsClient", "client.send_message">>
    IN  IF env.client_exc # "ok"
        THEN Outcome(env.client_exc, "", PyNone, tr, <<>>)
        ELSE Outcome("", "", NormalizeSingle(env.client_ret), tr, <<>>)

\* apns.py:113-130, _auth_key_apns_bulk_send
AuthKeyApnsBulkSend(registration_ids, alert, kw, env) ==
    LET tr == <<"APNsClient", "client.send_bulk_message">>
    IN  IF env.client_exc # "ok"
        THEN Outcome(env.client_exc, "", PyNone, tr, <<>>)
        ELSE Outcome("", "", NormalizeBulk(env.client_ret), tr, <<>>)

\* ------------------------------------------------------------- the registry
\* A device record per registration id (the id is unique): absent, active
\* or inactive.
DeviceStates == {"absent", "active", "inactive"}

\* apns_errors.reason_for_exception_class: the reason is the class's name
ReasonForExceptionClass(cls) ==
    CASE cls = "apns2.Unregistered" -> "Unregistered"
      [] cls = "apns2.BadDeviceToken" -> "BadDeviceToken"
      [] cls = "apns2.ConnectionFailed" -> "ConnectionFailed"
      [] OTHER -> "Unknown"

\* IsUnregistered testing for the wrong exception class
IsUnregisteredWrongClass(exc) == exc = "apns2.BadDeviceToken"

\* apns.py:181, the exceptions that deactivate the device
IsUnregistered(exc) == exc = "apns2.Unregistered"

\* InactiveTokens taking every failure for an invalid token
InactiveTokensAnyFailure(results) == {t \in DOMAIN results : results[t] # "Success"}

\* apns.py:203, the tokens of a batch result to deactivate
InactiveTokens(results) == {t \in DOMAIN results : results[t] = "Unregistered"}

\* UpdateInactive deleting the devices of the tokens
UpdateInactiveDeletes(devs, tokens) ==
    [r \in DOMAIN devs |-> IF r \in tokens THEN "absent" ELSE devs[r]]

\* apns.py:204, filter(registration_id__in=tokens).update(active=False)
UpdateInactive(devs, tokens) ==
    [r \in DOMAIN devs |->
        IF r \in tokens /\ devs[r] # "absent" THEN "inactive" ELSE devs[r]]

\* ----------------------------------------------------------- orchestrator
\* The result of an operation: the outcome of the call and the registry
\* after it.
Done(out, devs) == [out |-> out, devs |-> devs]

\* apns.py:180-185, what apns_send_message makes of the outcome r of
\* _apns_send: an APNsException deactivates the device when it is
\* Unregistered and is raised again as APNSServerError
HandleSendOutcome(devs, registration_id, r) ==
    IF r.exc \in Apns2Exceptions
    THEN IF IsUnregistered(r.exc)
         THEN IF devs[registration_id] = "absent"
              THEN Done(Outcome("DoesNotExist", "", PyNone,
                                Append(r.trace, "get"), r.sent), devs)
              ELSE Done(Outcome("APNSServerError", ReasonForExceptionClass(r.exc),
                                PyNone, r.trace \o <<"get", "save", "raise">>, r.sent),
                        [devs EXCEPT ![registration_id] = "inactive"])
         ELSE Done(Outcome("APNSServerError", ReasonForExceptionClass(r.exc),
                           PyNone, Append(r.trace, "raise"), r.sent), devs)
    ELSE Done(r, devs)

\* apns.py:178-185, the certificate branch of apns_send_message
CertSendMessage(devs, registration_id, alert, kw, env) ==
    HandleSendOutcome(devs, registration_id,
                      ApnsSend(registration_id, alert, FALSE, kw, env))

\* apns.py:161-185, apns_send_message
ApnsSendMessageResult(st, devs, registration_id, alert, kw, env) ==
    IF st.USE_APNS_KEY
    THEN IF CheckAuthKeySettings(st) # ""
         THEN Done(Outcome(CheckAuthKeySettings(st), "", PyNone, <<>>, <<>>), devs)
         ELSE Done(AuthKeyApnsSend(registration_id, alert, kw, env), devs)
    ELSE CertSendMessage(devs, registration_id, alert, kw, env)

\* apns.py:203-205, what apns_send_bulk_message makes of the outcome r of
\* _apns_send: the devices of the unregistered tokens are deactivated and
\* the results returned
HandleBatchOutcome(devs, r) ==
    IF r.exc # ""
    THEN Done(r, devs)
    ELSE Done(Outcome("", "", r.ret, Append(r.trace, "update"), r.sent),
              UpdateInactive(devs, InactiveTokens(r.ret.m)))

\* apns.py:188-205, apns_send_bulk_message
ApnsSendBulkMessageResult(st, devs, registration_ids, alert, kw, env) ==
    IF st.USE_APNS_KEY
    THEN IF CheckAuthKeySettings(st) # ""
         THEN Done(Outcome(CheckAuthKeySettings(st), "", PyNone, <<>>, <<>>), devs)
         ELSE Done(AuthKeyApnsBulkSend(registration_ids, alert, kw, env), devs)
    ELSE HandleBatchOutcome(devs, ApnsSend(registration_ids, alert, TRUE, kw, env))

\* ------------------------------------------------------------------ state
\* settings: PUSH_NOTIFICATIONS_SETTINGS; devices: the APNSDevice table;
\* call: the last operation made, with its arguments, what the world did
\* during it (env), the registry before it and its outcome.
VARIABLES settings, devices, call

vars == <<settings, devices, call>>

MkSettings(useKey, team, bundle, keyId, keyFile) ==
    [USE_APNS_KEY |-> useKey, TEAM_ID |-> team, BUNDLE_ID |-> bundle,
     APNS_KEY_ID |-> keyId, APNS_KEY_FILEPATH |-> keyFile]

\* a setting is missing, empty or set
SettingValues == {PyNone, PyStr(""), PyStr("k")}

\* every combination of the auth-mode flag and the four token settings
AllSettings ==
    {MkSettings(u, a, b, c, d) :
        u \in BOOLEAN, a \in SettingValues, b \in SettingValues,
        c \in SettingValues, d \in SettingValues}

\* A certificate deployment, a token deployment with its four settings, and
\* the token deployments that lack one of them.
Deployments ==
    {MkSettings(FALSE, PyNone, PyNone, PyNone, PyNone),
     MkSettings(TRUE, PyStr("k"), PyStr("k"), PyStr("k"), PyStr("k")),
     MkSettings(TRUE, PyNone, PyStr("k"), PyStr("k"), PyStr("k")),
     MkSettings(TRUE, PyStr("k"), PyNone, PyStr("k"), PyStr("k")),
     MkSettings(TRUE, PyStr("k"), PyStr("k"), PyNone, PyStr("k")),
     MkSettings(TRUE, PyStr("k"), PyStr("k"), PyStr("k"), PyNone)}

\* What a console action did: the devices it made a send attempt for, what
\* the world did during each attempt, the errors and the receipts it
\* collected and the messages it showed to the operator.
MkReport(att, es, errs, rets, msgs) ==
    [attempts |-> att, envs |-> es, errors |-> errs, ret |-> rets, messages |-> msgs]

NoReport == MkReport(<<>>, <<>>, <<>>, <<>>, <<>>)

MkCall(o, ids, al, k, e, bef, res, rep) ==
    [op |-> o, rids |-> ids, alert |-> al, kw |-> k, env |-> e,
     before |-> bef, out |-> res, report |-> rep]

\* ----------------------------------------------------------------- inputs
Clock == 1700000000
GatewayOutcomes == {"Success", "Unregistered", "BadDeviceToken"}

\* the world is not consulted
NoEnv == MkEnv("ok", "ok", NoMap, "ok", PyNone, Clock)

NoKw == MkKw(PyNone, PyNone, PyNone, PyNone, PyList(0), PyNone)

\* one list per set of recipients, in increasing order
RECURSIVE SetToSeq(_)
SetToSeq(S) ==
    IF S = {} THEN <<>>
    ELSE LET x == CHOOSE y \in S : \A z \in S : y <= z
         IN  <<x>> \o SetToSeq(S \ {x})

SeqToSet(q) == {q[i] : i \in 1..Len(q)}

RecipientLists == {SetToSeq(S) : S \in SUBSET Rids}

\* certificate path: the connection fails, or it is made and the gateway
\* accepts the notification or rejects it
CertSingleEnvs ==
    {MkEnv("apns2.ConnectionFailed", "ok", NoMap, "ok", PyNone, Clock)}
    \cup {MkEnv("ok", snd, NoMap, "ok", PyNone, Clock) :
            snd \in {"ok", "apns2.Unregistered", "apns2.BadDeviceToken"}}

\* certificate path, batch: the connection fails, the batch send fails as a
\* whole, or it returns an outcome for every recipient
CertBulkEnvs(ids) ==
    {MkEnv("apns2.ConnectionFailed", "ok", NoMap, "ok", PyNone, Clock),
     MkEnv("ok", "apns2.ConnectionFailed", NoMap, "ok", PyNone, Clock)}
    \cup {MkEnv("ok", "ok", res, "ok", PyNone, Clock) :
            res \in [SeqToSet(ids) -> GatewayOutcomes]}

\* token path: the client raises, or returns a boolean, nothing or an
\* outcome for every recipient
TokenEnvs(ids) ==
    {MkEnv("ok", "ok", NoMap, e, PyNone, Clock) : e \in GobikoExceptions}
    \cup {MkEnv("ok", "ok", NoMap, "ok", r, Clock) :
            r \in {PyTrue, PyFalse, PyNone}}
    \cup {MkEnv("ok", "ok", NoMap, "ok", PyDict(res), Clock) :
            res \in [SeqToSet(ids) -> GatewayOutcomes]}

\* what the world may do during a send under the settings st
EnvsFor(st, ids, batch) ==
    IF st.USE_APNS_KEY
    THEN IF CheckAuthKeySettings(st) # "" THEN {NoEnv} ELSE TokenEnvs(ids)
    ELSE IF batch THEN CertBulkEnvs(ids) ELSE CertSingleEnvs

Priorities == {PyNone, PyInt(10), PyInt(7), PyInt(0), PyStr("urgent")}

\* the options of the sends of the delivery specification
SendKws == {NoKw}

Hello == PyStr("hello")

\* ---------------------------------------------------------------- actions
Init ==
    /\ settings \in Deployments
    /\ devices \in [Rids -> DeviceStates]
    /\ call = MkCall("none", <<>>, PyNone, NoKw, NoEnv, devices,
                     Outcome("", "", PyNone, <<>>, <<>>), NoReport)

\* apns_send_message(registration_id, alert, **kw)
ApnsSendMessage(registration_id, alert, kw, env) ==
    LET d == ApnsSendMessageResult(settings, devices, registration_id, alert, kw, env)
    IN  /\ devices' = d.devs
        /\ call' = MkCall("apns_send_message", <<registration_id>>, alert, kw, env,
                          devices, d.out, NoReport)
        /\ UNCHANGED settings

\* apns_send_bulk_message(registration_ids, alert, **kw)
ApnsSendBulkMessage(registration_ids, alert, kw, env) ==
    LET d == ApnsSendBulkMessageResult(settings, devices, registration_ids, alert, kw, env)
    IN  /\ devices' = d.devs
        /\ call' = MkCall("apns_send_bulk_message", registration_ids, alert, kw, env,
                          devices, d.out, NoReport)
        /\ UNCHANGED settings

\* ------------------------------------------------------------ admin console
TestSingle == PyStr("Test single notification")

\* admin.py:38-48, what the loop makes of the outcome d of the attempt for
\* the device id: a receipt is kept, an APNSServerError or a gobiko
\* APNsException is kept as an error, and any other exception leaves the
\* loop and the action
Collect(acc, id, d) ==
    LET att == [acc EXCEPT !.attempts = Append(@, id), !.devs = d.devs]
    IN  IF d.out.exc = "APNSServerError"
        THEN [att EXCEPT !.errors = Append(@, d.out.status)]
        ELSE IF d.out.exc \in GobikoExceptions
        THEN [att EXCEPT !.errors = Append(@, d.out.exc)]
        ELSE IF d.out.exc # ""
        THEN [att EXCEPT !.exc = d.out.exc]
        ELSE IF Truthy(d.out.ret)
        THEN [att EXCEPT !.ret = Append(@, d.out.ret)]
        ELSE att

\* APNSDevice.send_message(message): the single send to the device's
\* registration id, whatever its active flag
DeviceSendMessage(st, devs, id, message, env) ==
    ApnsSendMessageResult(st, devs, id, message, NoKw, env)

\* admin.py:33-48 with bulk=False, one turn of the loop from the state acc.
\* No turn is made once an exception has left the loop.
SendTurn(st, id, env, acc) ==
    IF acc.exc # "" THEN acc
    ELSE Collect(acc, id, DeviceSendMessage(st, acc.devs, id, TestSingle, env))

\* admin.py:32-51 with bulk=False, the loop over the selected devices
SendLoop(st, ids, envs, acc) ==
    LET after[i \in 0..Len(ids)] ==
            IF i = 0 THEN acc ELSE SendTurn(st, ids[i], envs[i], after[i - 1])
    IN  after[Len(ids)]

\* admin.py:53-65, the messages shown once the loop has ended
Messages(errors, ret) ==
    (IF errors # <<>> THEN <<"Some messages could not be processed">> ELSE <<>>)
    \o (IF ret = <<>> THEN <<>>
        ELSE IF errors # <<>> THEN <<"Some messages were sent">>
        ELSE <<"All messages were sent">>)

\* the result of the action from the state acc the loop ended in
Reported(acc, envs) ==
    [exc |-> acc.exc, devs |-> acc.devs,
     report |-> MkReport(acc.attempts, envs, acc.errors, acc.ret,
                         IF acc.exc # "" THEN <<>> ELSE Messages(acc.errors, acc.ret))]

\* admin.py:24-65, send_messages with bulk=False
SendMessagesResult(st, devs, ids, envs) ==
    Reported(SendLoop(st, ids, envs,
                      [attempts |-> <<>>, devs |-> devs, errors |-> <<>>,
                       ret |-> <<>>, exc |-> ""]),
             envs)

TestBulk == PyStr("Test bulk notification")

\* queryset.send_message(message): the bulk send to the registration ids of
\* the selected devices
QuerysetSendMessage(st, devs, ids, message, env) ==
    ApnsSendBulkMessageResult(st, devs, ids, message, NoKw, env)

\* BulkTurns without the break at the end of the first turn
BulkTurnsNoBreak(ids) == Len(ids)

\* admin.py:32 and 50-51 with bulk=True, the turns of the loop: none for an
\* empty selection, else one, the break ending the loop after the first
BulkTurns(ids) == IF ids = <<>> THEN 0 ELSE 1

\* admin.py:33-48 with bulk=True, one turn of the loop from the state acc
BulkTurn(st, ids, env, acc) ==
    IF acc.exc # "" THEN acc
    ELSE Collect(acc, ids, QuerysetSendMessage(st, acc.devs, ids, TestBulk, env))

\* admin.py:32-51 with bulk=True, the loop
BulkLoop(st, ids, envs, acc) ==
    LET after[i \in 0..BulkTurns(ids)] ==
            IF i = 0 THEN acc ELSE BulkTurn(st, ids, envs[i], after[i - 1])
    IN  after[BulkTurns(ids)]

\* admin.py:24-65, send_messages with bulk=True
SendBulkMessagesResult(st, devs, ids, envs) ==
    Reported(BulkLoop(st, ids, envs,
                      [attempts |-> <<>>, devs |-> devs, errors |-> <<>>,
                       ret |-> <<>>, exc |-> ""]),
             envs)

\* the devices the operator can select
Selections(devs) == {SetToSeq(S) : S \in SUBSET {r \in DOMAIN devs : devs[r] # "absent"}}

\* what the world may do during one attempt of a console action: as for a
\* single send, the token client raising or answering with a boolean
AdminEnvs(st) ==
    IF st.USE_APNS_KEY
    THEN IF CheckAuthKeySettings(st) # "" THEN {NoEnv}
         ELSE {MkEnv("ok", "ok", NoMap, e, PyNone, Clock) : e \in GobikoExceptions}
              \cup {MkEnv("ok", "ok", NoMap, "ok", r, Clock) : r \in {PyTrue, PyFalse}}
    ELSE CertSingleEnvs

\* admin.py:67-68, DeviceAdmin.send_message
AdminSendMessage(ids, envs) ==
    LET d == SendMessagesResult(settings, devices, ids, envs)
    IN  /\ devices' = d.devs
        /\ call' = MkCall("admin.send_message", ids, TestSingle, NoKw, NoEnv, devices,
                          Outcome(d.exc, "", PyNone, <<>>, <<>>), d.report)
        /\ UNCHANGED settings

\* admin.py:72-73, DeviceAdmin.send_bulk_message
AdminSendBulkMessage(ids, envs) ==
    LET d == SendBulkMessagesResult(settings, devices, ids, envs)
    IN  /\ devices' = d.devs
        /\ call' = MkCall("admin.send_bulk_message", ids, TestBulk, NoKw, NoEnv, devices,
                          Outcome(d.exc, "", PyNone, <<>>, <<>>), d.report)
        /\ UNCHANGED settings

\* admin.py:77-78 and 82-83, queryset.update(active=...)
UpdateActive(devs, ids, state) ==
    [r \in DOMAIN devs |-> IF r \in SeqToSet(ids) THEN state ELSE devs[r]]

\* admin.py:77-78, DeviceAdmin.enable
AdminEnable(ids) ==
    /\ devices' = UpdateActive(devices, ids, "active")
    /\ call' = MkCall("admin.enable", ids, PyNone, NoKw, NoEnv, devices,
                      Outcome("", "", PyNone, <<>>, <<>>), NoReport)
    /\ UNCHANGED settings

\* admin.py:82-83, DeviceAdmin.disable
AdminDisable(ids) ==
    /\ devices' = UpdateActive(devices, ids, "inactive")
    /\ call' = MkCall("admin.disable", ids, PyNone, NoKw, NoEnv, devices,
                      Outcome("", "", PyNone, <<>>, <<>>), NoReport)
    /\ UNCHANGED settings

Next ==
    \/ \E ids \in Selections(devices) :
          \E envs \in [1..Len(ids) -> AdminEnvs(settings)] :
             AdminSendMessage(ids, envs)
    \/ \E ids \in Selections(devices) :
          \E envs \in [1..BulkTurns(ids) -> EnvsFor(settings, ids, TRUE)] :
             AdminSendBulkMessage(ids, envs)
    \/ \E ids \in Selections(devices) : AdminEnable(ids)
    \/ \E ids \in Selections(devices) : AdminDisable(ids)
    \/ \E rid \in Rids, kw \in SendKws :
          \E env \in EnvsFor(settings, <<rid>>, FALSE) :
             ApnsSendMessage(rid, Hello, kw, env)
    \/ \E ids \in RecipientLists, kw \in SendKws :
          \E env \in EnvsFor(settings, ids, TRUE) :
             ApnsSendBulkMessage(ids, Hello, kw, env)

Spec == Init /\ [][Next]_vars

\* ------------------------------------------------- settings specification
\* One send, single or bulk, under every combination of the settings and
\* every registry.
InitConfig ==
    /\ settings \in AllSettings
    /\ devices \in [Rids -> DeviceStates]
    /\ call = MkCall("request", <<>>, Hello, NoKw, NoEnv, devices,
                     Outcome("", "", PyNone, <<>>, <<>>), NoReport)

NextConfig ==
    \/ /\ call.op = "request"
       /\ \E rid \in Rids :
             \E env \in EnvsFor(settings, <<rid>>, FALSE) :
                ApnsSendMessage(rid, call.alert, call.kw, env)
    \/ /\ call.op = "request"
       /\ \E ids \in RecipientLists :
             \E env \in EnvsFor(settings, ids, TRUE) :
                ApnsSendBulkMessage(ids, call.alert, call.kw, env)

SpecConfig == InitConfig /\ [][NextConfig]_vars

\* -------------------------------------------------- options specification
\* One send on the certificate path for every message: the alert and the
\* options are drawn first, the send is then made to any recipients.
Alerts == {PyNone, Hello}
Expirations == {PyNone, PyInt(0), PyInt(500)}
Badges == {PyNone, PyInt(3), BadgeFn}
LocKeys == {PyNone, PyStr(""), PyStr("GAME_INVITE")}
LocArgs == {PyList(0), PyList(1)}
ActionLocKeys == {PyNone, PyStr("PLAY")}

OptionKws ==
    {MkKw(p, PyNone, PyNone, PyNone, PyList(0), PyNone) : p \in Priorities}
    \cup {MkKw(PyNone, e, PyNone, PyNone, PyList(0), PyNone) : e \in Expirations}
    \cup {MkKw(PyNone, PyNone, b, lk, la, ak) :
            b \in Badges, lk \in LocKeys, la \in LocArgs, ak \in ActionLocKeys}

InitOptions ==
    /\ settings = MkSettings(FALSE, PyNone, PyNone, PyNone, PyNone)
    /\ devices \in [Rids -> DeviceStates]
    /\ \E al \in Alerts, kw \in OptionKws :
          call = MkCall("request", <<>>, al, kw, NoEnv, devices,
                        Outcome("", "", PyNone, <<>>, <<>>), NoReport)

NextOptions ==
    \/ /\ call.op = "request"
       /\ \E rid \in Rids :
             \E env \in EnvsFor(settings, <<rid>>, FALSE) :
                ApnsSendMessage(rid, call.alert, call.kw, env)
    \/ /\ call.op = "request"
       /\ \E ids \in RecipientLists :
             \E env \in EnvsFor(settings, ids, TRUE) :
                ApnsSendBulkMessage(ids, call.alert, call.kw, env)

SpecOptions == InitOptions /\ [][NextOptions]_vars

\* ----------------------------------------------------------------- claims
Contains(q, x) == \E i \in 1..Len(q) : q[i] = x
Precedes(q, x, y) == \E i \in 1..Len(q), j \in 1..Len(q) : i < j /\ q[i] = x /\ q[j] = y

IsSingle == call.op = "apns_send_message"
IsBulk == call.op = "apns_send_bulk_message"
CertPath == ~settings.USE_APNS_KEY
TokenPath == settings.USE_APNS_KEY
\* the gateway answered the batch send with an outcome mapping
BatchAnswered ==
    IsBulk /\ CertPath /\ Contains(call.out.trace, "send_notification_batch")
    /\ call.env.send = "ok"
\* the gateway's single send raised the exception exc
SingleRaised(exc) ==
    IsSingle /\ CertPath /\ Contains(call.out.trace, "send_notification")
    /\ call.env.send = exc
\* the token client was called and answered without raising
ClientAnswered ==
    TokenPath /\ call.env.client_exc = "ok"
    /\ (Contains(call.out.trace, "client.send_message")
        \/ Contains(call.out.trace, "client.send_bulk_message"))

\* C1: on the certificate path, once the gateway has answered a bulk send
\* with an outcome mapping, the registered devices whose outcome is
\* "Unregistered" are inactive, every other device is as it was before the
\* send, the mapping is returned as it was received and nothing is raised.
C1_BulkDeactivatesExactlyUnregistered ==
    BatchAnswered =>
        /\ \A r \in Rids :
              devices[r] =
                IF r \in DOMAIN call.env.results
                   /\ call.env.results[r] = "Unregistered"
                   /\ call.before[r] # "absent"
                THEN "inactive" ELSE call.before[r]
        /\ call.out.ret = PyDict(call.env.results)
        /\ call.out.exc = ""

C1_Witness ==
    /\ BatchAnswered
    /\ \E a \in Rids, b \in Rids :
          /\ call.rids = <<a, b>>
          /\ call.env.results[a] = "Unregistered" /\ call.before[a] = "active"
          /\ devices[a] = "inactive"
          /\ call.env.results[b] = "BadDeviceToken" /\ call.before[b] = "active"
          /\ devices[b] = "active"

\* C2: on the certificate path, when the gateway's single send raises
\* Unregistered for a recipient that has a device, the device is saved
\* inactive before the raise statement is reached, the caller gets an
\* APNSServerError whose status is the translated reason of Unregistered,
\* and the device is inactive in the registry when the error reaches the
\* caller.
C2_DeactivatedBeforeServerError ==
    (SingleRaised("apns2.Unregistered") /\ call.before[call.rids[1]] # "absent") =>
        /\ call.out.exc = "APNSServerError"
        /\ call.out.status = ReasonForExceptionClass("apns2.Unregistered")
        /\ Precedes(call.out.trace, "save", "raise")
        /\ devices[call.rids[1]] = "inactive"

C2_Witness ==
    /\ SingleRaised("apns2.Unregistered")
    /\ call.before[call.rids[1]] = "active"
    /\ devices[call.rids[1]] = "inactive"
    /\ call.out.exc = "APNSServerError"

\* the priority was given and is no value of the gateway's priority enum
Unparseable(p) == p.kind # "NoneType" /\ PyStrOf(p) \notin PriorityEnum

\* C3: a single or bulk send on the certificate path with a priority that
\* does not parse into the priority enum raises APNSUnsupportedPriority
\* and has made no network call: no connect and no send.
C3_BadPriorityRaisesBeforeNetwork ==
    ((IsSingle \/ IsBulk) /\ CertPath /\ Unparseable(call.kw.priority)) =>
        /\ call.out.exc = "APNSUnsupportedPriority"
        /\ ~Contains(call.out.trace, "connect")
        /\ ~Contains(call.out.trace, "send_notification")
        /\ ~Contains(call.out.trace, "send_notification_batch")

\* the transport reported the recipient r of the last send as permanently
\* invalid
ReportedInvalid(r) ==
    \/ SingleRaised("apns2.Unregistered") /\ call.rids = <<r>>
    \/ BatchAnswered /\ r \in DOMAIN call.env.results
       /\ call.env.results[r] = "Unregistered"
    \/ IsSingle /\ TokenPath /\ call.rids = <<r>>
       /\ Contains(call.out.trace, "client.send_message")
       /\ call.env.client_exc = "gobiko.Unregistered"
    \/ IsBulk /\ ClientAnswered /\ call.env.client_ret.kind = "dict"
       /\ r \in DOMAIN call.env.client_ret.m
       /\ call.env.client_ret.m[r] = "Unregistered"

\* C4: in both auth modes, after a single or bulk send every recipient the
\* transport reported as permanently invalid (and that has a device) is
\* inactive, and every other device is as it was before the send.
C4_InvalidRecipientsDeactivatedInBothModes ==
    (IsSingle \/ IsBulk) =>
        \A r \in Rids :
            devices[r] =
              IF ReportedInvalid(r) /\ call.before[r] # "absent"
              THEN "inactive" ELSE call.before[r]

\* a setting is missing or empty
Unset(v) == v = PyNone \/ v = PyStr("")

\* C5: with token auth selected and one of the four token settings missing
\* or empty, a single or bulk send raises ImproperlyConfigured having built
\* no client, made no send and written nothing to the registry.
C5_MissingTokenSettingRaisesFirst ==
    ((IsSingle \/ IsBulk) /\ TokenPath
     /\ (Unset(settings.TEAM_ID) \/ Unset(settings.BUNDLE_ID)
         \/ Unset(settings.APNS_KEY_ID) \/ Unset(settings.APNS_KEY_FILEPATH))) =>
        /\ call.out.exc = "ImproperlyConfigured"
        /\ call.out.trace = <<>>
        /\ devices = call.before

C5_Witness ==
    /\ IsBulk /\ TokenPath
    /\ settings.TEAM_ID = PyStr("k") /\ settings.BUNDLE_ID = PyStr("k")
    /\ settings.APNS_KEY_ID = PyStr("k") /\ settings.APNS_KEY_FILEPATH = PyStr("")
    /\ Len(call.rids) = NumRids
    /\ call.out.exc = "ImproperlyConfigured"

\* C6: when the badge is a function of the recipient, every payload handed
\* to the gateway, for a plain and for a localized alert, carries the value
\* of the function at that payload's recipient.
C6_CallableBadgeEvaluatedPerRecipient ==
    ((IsSingle \/ IsBulk) /\ CertPath /\ Callable(call.kw.badge)) =>
        \A i \in 1..Len(call.out.sent) :
            call.out.sent[i].payload.badge
                = CallBadge(call.kw.badge, call.out.sent[i].token)

\* the transport accepted the notification of the last single send
SingleAccepted ==
    \/ IsSingle /\ CertPath /\ Contains(call.out.trace, "send_notification")
       /\ call.env.send = "ok"
    \/ IsSingle /\ ClientAnswered /\ call.env.client_ret = PyTrue

\* C7: in both auth modes a single send the transport accepted returns a
\* non-empty receipt string.
C7_SingleSendReturnsReceipt ==
    SingleAccepted =>
        /\ call.out.exc = ""
        /\ call.out.ret.kind = "str"
        /\ call.out.ret.s # ""

\* C8: on the token path the single and the bulk send return 'True' for a
\* boolean success of the client and every other value of the client as
\* it is.
C8_TokenResultNormalized ==
    ((IsSingle \/ IsBulk) /\ ClientAnswered) =>
        call.out.ret = IF call.env.client_ret = PyTrue
                       THEN PyStr("True") ELSE call.env.client_ret

\* C9: the console's single-send action makes an attempt for every device
\* of the selection, whatever error an earlier attempt raised.
C9_ConsoleAttemptsEveryDevice ==
    call.op = "admin.send_message" => call.report.attempts = call.rids

\* a localization option was supplied: a key that is a non-empty string, or
\* a non-empty list of arguments
Supplied(v) == v # PyNone /\ v # PyStr("") /\ v # PyList(0)

\* C10: when a body-localization key, localization arguments or an
\* action-localization key is supplied, the alert of every payload built is
\* the localized-alert structure of the body and the three options, with
\* or without a plain alert; when none is supplied it is the alert as given.
C10_LocalizedAlertStructure ==
    ((IsSingle \/ IsBulk) /\ CertPath) =>
        \A i \in 1..Len(call.out.sent) :
            LET a == call.out.sent[i].payload.alert
            IN  IF Supplied(call.kw.loc_key) \/ Supplied(call.kw.loc_args)
                   \/ Supplied(call.kw.action_loc_key)
                THEN /\ a.shape = "PayloadAlert"
                     /\ a.body = (IF call.alert = PyNone THEN PyDict(NoMap) ELSE call.alert)
                     /\ a.body_localized_key = call.kw.loc_key
                     /\ a.body_localized_args = call.kw.loc_args
                     /\ a.action_localized_key = call.kw.action_loc_key
                ELSE a.shape = "plain" /\ a.body = call.alert

C10_Witness ==
    /\ IsBulk /\ CertPath
    /\ Len(call.out.sent) = NumRids
    /\ call.alert = Hello
    /\ call.kw.loc_key = PyNone /\ call.kw.action_loc_key = PyNone
    /\ call.kw.loc_args = PyList(1)
    /\ call.out.sent[1].payload.alert.shape = "PayloadAlert"

\* C11: on the certificate path the expiration handed to the gateway is the
\* caller's value whenever the caller gave one, zero included, and the
\* clock plus 2,592,000 seconds only when the caller gave none.
C11_ExpirationIsCallersValue ==
    ((IsSingle \/ IsBulk) /\ CertPath) =>
        \A i \in 1..Len(call.out.sent) :
            call.out.sent[i].expiration =
                IF call.kw.expiration = PyNone
                THEN call.env.now + DefaultExpiration
                ELSE call.kw.expiration.n

\* C12: on the certificate path, whenever the gateway's single send raises
\* a gateway exception, the caller gets an APNSServerError carrying the
\* translated reason of that exception, whatever the registry holds.
C12_GatewayErrorAlwaysServerError ==
    \A e \in Apns2Exceptions :
        SingleRaised(e) =>
            /\ call.out.exc = "APNSServerError"
            /\ call.out.status = ReasonForExceptionClass(e)

Count(q, x) == Cardinality({i \in 1..Len(q) : q[i] = x})
\* the connections opened and the sends made during the last call
Connects == Count(call.out.trace, "connect") + Count(call.out.trace, "APNsClient")
Sends ==
    Count(call.out.trace, "send_notification")
    + Count(call.out.trace, "send_notification_batch")
    + Count(call.out.trace, "client.send_message")
    + Count(call.out.trace, "client.send_bulk_message")

\* C13: a call of apns_send_message or apns_send_bulk_message opens at most
\* one connection and makes at most one send, whether it succeeds or
\* fails, and makes no send after a failed connection.
C13_AtMostOneConnectAndSend ==
    (IsSingle \/ IsBulk) =>
        /\ Connects <= 1
        /\ Sends <= 1
        /\ (CertPath /\ call.env.connect # "ok" => Sends = 0)

C13_Witness ==
    /\ IsSingle /\ CertPath
    /\ call.env.connect # "ok"
    /\ call.out.exc = "APNSServerError"
    /\ Connects = 1 /\ Sends = 0

\* C14: over any sequence of single sends, bulk sends and console actions
\* no step deletes a device record, so the number of records never
\* decreases, and a device goes from inactive to active only in the
\* console's enable action; no send does either.
C14_NeverDeletedNeverResurrected ==
    [][\A r \in Rids :
          /\ devices[r] # "absent" => devices'[r] # "absent"
          /\ (devices[r] = "inactive" /\ devices'[r] = "active") =>
                 call'.op = "admin.enable"]_vars

C14_Witness ==
    /\ IsBulk /\ CertPath /\ BatchAnswered
    /\ \E r \in SeqToSet(call.rids), t \in SeqToSet(call.rids) :
          /\ call.before[r] = "inactive" /\ call.out.ret.m[r] = "Success"
          /\ devices[r] = "inactive"
          /\ call.before[t] = "active" /\ devices[t] = "inactive"

\* C15: the console's bulk action makes exactly one bulk send, to the
\* whole selection, when the selection holds a device, however many it
\* holds; for an empty selection it makes no send, shows no message and
\* leaves the registry as it was.
C15_ConsoleBulkSendsOnce ==
    call.op = "admin.send_bulk_message" =>
        IF call.rids = <<>>
        THEN /\ call.report.attempts = <<>>
             /\ call.report.messages = <<>>
             /\ call.out.exc = ""
             /\ devices = call.before
        ELSE call.report.attempts = <<call.rids>>

C15_Witness ==
    /\ call.op = "admin.send_bulk_message"
    /\ Len(call.rids) = NumRids
    /\ call.report.attempts = <<call.rids>>
    /\ call.report.messages = <<"All messages were sent">>

====
